---- MODULE Spec2Model ----
(***************************************************************************)
(* SuryaEncoderImageProcessor (surya/common/donut/processor.py).           *)
(*                                                                         *)
(* An ndarray is a record [shape, dtype, data]: data is a nested sequence  *)
(* indexed from 1 (data[r][c][k] is numpy's [r-1, c-1, k-1]).  Samples of  *)
(* a caller's image are integers; a sample produced by cv2.resize, by the  *)
(* rescale multiplication or by the standardisation is kept as the term    *)
(* that computes it, since its value is fixed by the operands alone.       *)
(***************************************************************************)
EXTENDS Integers, Sequences, FiniteSets, TLC

\* ---------------------------------------------------------------- bounds
MaxSide == 2      \* image and target sides range over 1..MaxSide
MaxBatch == 2     \* a call carries 1..MaxBatch images
MaxPadSide == 3   \* pad_image called alone: canvas sides range over 1..MaxPadSide

\* ------------------------------------------------------ library constants
INTER_LANCZOS4 == 4
BILINEAR == 2
RECOGNITION_PAD_VALUE == 255
IMAGENET_STANDARD_MEAN == <<485, 456, 406>>   \* thousandths
IMAGENET_STANDARD_STD == <<229, 224, 225>>    \* thousandths
DefaultRescaleFactor == [num |-> 1, den |-> 255]

FIRST == "channels_first"
LAST == "channels_last"

\* ----------------------------------------------------------------- arrays
NoArray == [shape |-> <<>>, dtype |-> "none", data |-> <<>>]

\* A caller's image: h x w x c, uint8, every sample distinct.
RawImage(h, w, c) ==
    [shape |-> <<h, w, c>>,
     dtype |-> "uint8",
     data  |-> [r \in 1..h |-> [col \in 1..w |-> [k \in 1..c |->
                  ((r - 1) * w + (col - 1)) * c + (k - 1)]]]]

\* numpy.ndarray.astype
astype(a, dtype) == [a EXCEPT !.dtype = dtype]

\* numpy.flip(m, axis = 1) of an array of at least two dimensions
np_flip1(m) ==
    [m EXCEPT !.data = [i \in 1..m.shape[1] |-> [j \in 1..m.shape[2] |->
                          m.data[i][m.shape[2] + 1 - j]]]]

\* numpy.flip(m, axis = 0)
np_flip0(m) ==
    [m EXCEPT !.data = [i \in 1..m.shape[1] |-> m.data[m.shape[1] + 1 - i]]]

\* numpy.transpose(m, axes) with the first two axes swapped
np_swap01(m) ==
    [m EXCEPT !.shape = [n \in 1..Len(m.shape) |->
                           IF n = 1 THEN m.shape[2]
                           ELSE IF n = 2 THEN m.shape[1] ELSE m.shape[n]],
              !.data  = [i \in 1..m.shape[2] |-> [j \in 1..m.shape[1] |->
                           m.data[j][i]]]]

\* numpy.rot90(m, k) in the plane of the first two axes
\* faulty variant: one counter-clockwise quarter turn whatever k
np_rot90_k1(m, k) == np_swap01(np_flip1(m))

np_rot90(m, k) ==
    IF k % 4 = 0 THEN m
    ELSE IF k % 4 = 2 THEN np_flip1(np_flip0(m))
    ELSE IF k % 4 = 1 THEN np_swap01(np_flip1(m))
    ELSE np_flip1(np_swap01(m))

\* ------------------------------------------------------- align_long_axis
\* faulty variant: non-strict comparisons
align_long_axis_nonstrict(image, size) ==
    LET input_height  == image.shape[1]
        input_width   == image.shape[2]
        output_height == size.height
        output_width  == size.width
    IN  IF \/ (output_width <= output_height /\ input_width >= input_height)
           \/ (output_width >= output_height /\ input_width <= input_height)
        THEN np_rot90(image, 3)
        ELSE image

align_long_axis(image, size) ==
    LET input_height  == image.shape[1]
        input_width   == image.shape[2]
        output_height == size.height
        output_width  == size.width
    IN  IF \/ (output_width < output_height /\ input_width > input_height)
           \/ (output_width > output_height /\ input_width < input_height)
        THEN np_rot90(image, 3)
        ELSE image

\* ------------------------------------------------- results of a raising call
Returned(a) == [raised |-> "", value |-> a]
Raised(e) == [raised |-> e, value |-> NoArray]

\* ------------------------------------------------------------ numpy_resize
\* cv2.resize(image, dsize = (width, height), interpolation): the result is
\* height x width x channels, and height x width when the source has one
\* channel.  Each sample is fixed by the kernel, the source plane of its
\* channel, the destination size and its position.
cv2_resize(image, dsize, interpolation) ==
    LET h == image.shape[1]
        w == image.shape[2]
        channels == image.shape[3]
        plane(k) == [r \in 1..h |-> [col \in 1..w |-> image.data[r][col][k]]]
        sample(y, x, k) == [op |-> "cv2.resize", interpolation |-> interpolation,
                            dsize |-> dsize, src |-> plane(k), y |-> y, x |-> x]
    IN  IF channels = 1
        THEN [shape |-> <<dsize[2], dsize[1]>>,
              dtype |-> image.dtype,
              data  |-> [y \in 1..dsize[2] |-> [x \in 1..dsize[1] |-> sample(y, x, 1)]]]
        ELSE [shape |-> <<dsize[2], dsize[1], channels>>,
              dtype |-> image.dtype,
              data  |-> [y \in 1..dsize[2] |-> [x \in 1..dsize[1] |->
                           [k \in 1..channels |-> sample(y, x, k)]]]]

\* numpy.ndarray.transpose(2, 0, 1) of a three-dimensional array
np_transpose_201(a) ==
    [shape |-> <<a.shape[3], a.shape[1], a.shape[2]>>,
     dtype |-> a.dtype,
     data  |-> [k \in 1..a.shape[3] |-> [i \in 1..a.shape[1] |-> [j \in 1..a.shape[2] |->
                  a.data[i][j][k]]]]]

numpy_resize(image, size, interpolation) ==
    LET max_width  == size.width
        max_height == size.height
        resized_image == cv2_resize(image, <<max_width, max_height>>, interpolation)
    IN  IF Len(resized_image.shape) # 3      \* transpose: axes don't match array
        THEN Raised("ValueError")
        ELSE Returned(np_transpose_201(resized_image))

\* --------------------------------------------------------------- pad_image
\* transformers.image_utils.get_image_size: (height, width)
get_image_size(image, channel_dim) ==
    IF channel_dim = FIRST
    THEN <<image.shape[2], image.shape[3]>>
    ELSE <<image.shape[1], image.shape[2]>>

\* numpy.pad(a, ((b1, a1), (b2, a2), (b3, a3)), mode = "constant"), widths >= 0
np_pad(a, before, after, constant_values) ==
    LET d(n) == a.shape[n] + before[n] + after[n]
        inside(i, n) == before[n] < i /\ i <= before[n] + a.shape[n]
    IN  [shape |-> <<d(1), d(2), d(3)>>,
         dtype |-> a.dtype,
         data  |-> [i \in 1..d(1) |-> [j \in 1..d(2) |-> [k \in 1..d(3) |->
                      IF inside(i, 1) /\ inside(j, 2) /\ inside(k, 3)
                      THEN a.data[i - before[1]][j - before[2]][k - before[3]]
                      ELSE constant_values]]]]

\* transformers.image_transforms.pad(image, ((top, bottom), (left, right)))
pad(image, padding, input_data_format, constant_values) ==
    LET top    == padding[1][1]
        bottom == padding[1][2]
        left   == padding[2][1]
        right  == padding[2][2]
    IN  IF top < 0 \/ bottom < 0 \/ left < 0 \/ right < 0
        THEN Raised("ValueError")           \* numpy: index can't contain negative values
        ELSE IF input_data_format = FIRST
        THEN Returned(np_pad(image, <<0, top, left>>, <<0, bottom, right>>, constant_values))
        ELSE Returned(np_pad(image, <<top, left, 0>>, <<bottom, right, 0>>, constant_values))

\* faulty variant: the larger half of an odd delta goes to the top / left
pad_image_larger_half_first(image, size, input_data_format, pad_value) ==
    LET output_height == size.height
        output_width  == size.width
        input_height  == get_image_size(image, input_data_format)[1]
        input_width   == get_image_size(image, input_data_format)[2]
        delta_width   == output_width - input_width
        delta_height  == output_height - input_height
        pad_bottom    == delta_height \div 2
        pad_right     == delta_width \div 2
        pad_top       == delta_height - pad_bottom
        pad_left      == delta_width - pad_right
        padding       == <<<<pad_top, pad_bottom>>, <<pad_left, pad_right>>>>
    IN  IF ~(delta_width >= 0 /\ delta_height >= 0)
        THEN Raised("AssertionError")
        ELSE pad(image, padding, input_data_format, pad_value)

\* faulty variant: only the width delta is asserted
pad_image_width_only_assert(image, size, input_data_format, pad_value) ==
    LET output_height == size.height
        output_width  == size.width
        input_height  == get_image_size(image, input_data_format)[1]
        input_width   == get_image_size(image, input_data_format)[2]
        delta_width   == output_width - input_width
        delta_height  == output_height - input_height
        pad_top       == delta_height \div 2
        pad_left      == delta_width \div 2
        pad_bottom    == delta_height - pad_top
        pad_right     == delta_width - pad_left
        padding       == <<<<pad_top, pad_bottom>>, <<pad_left, pad_right>>>>
    IN  IF ~(delta_width >= 0)
        THEN Raised("AssertionError")
        ELSE pad(image, padding, input_data_format, pad_value)

pad_image(image, size, input_data_format, pad_value) ==
    LET output_height == size.height
        output_width  == size.width
        input_height  == get_image_size(image, input_data_format)[1]
        input_width   == get_image_size(image, input_data_format)[2]
        delta_width   == output_width - input_width
        delta_height  == output_height - input_height
        pad_top       == delta_height \div 2
        pad_left      == delta_width \div 2
        pad_bottom    == delta_height - pad_top
        pad_right     == delta_width - pad_left
        padding       == <<<<pad_top, pad_bottom>>, <<pad_left, pad_right>>>>
    IN  IF ~(delta_width >= 0 /\ delta_height >= 0)
        THEN Raised("AssertionError")
        ELSE pad(image, padding, input_data_format, pad_value)

\* ----------------------------------------------------- rescale, normalize
\* ndarray * factor, sample by sample
np_multiply(a, factor) ==
    [a EXCEPT !.data = [i \in 1..a.shape[1] |-> [j \in 1..a.shape[2] |->
                          [k \in 1..a.shape[3] |->
                             [op |-> "mul", x |-> a.data[i][j][k], by |-> factor]]]]]

\* (image.astype(float64) * rescale_factor).astype(float32)
rescale(image, rescale_factor) ==
    astype(np_multiply(astype(image, "float64"), rescale_factor), "float32")

\* A mean or std of the configuration: one scalar, or one value per channel.
Scalar(x) == [iterable |-> FALSE, v |-> <<x>>]
PerChannel(xs) == [iterable |-> TRUE, v |-> xs]

\* transformers.image_transforms.normalize
normalize(image, mean, std, input_data_format) ==
    LET channel_axis == IF input_data_format = FIRST THEN 1 ELSE 3
        num_channels == image.shape[channel_axis]
        mean_of(ch) == IF mean.iterable THEN mean.v[ch] ELSE mean.v[1]
        std_of(ch)  == IF std.iterable THEN std.v[ch] ELSE std.v[1]
        chan(i, j, k) == IF input_data_format = FIRST THEN i ELSE k
    IN  IF mean.iterable /\ Len(mean.v) # num_channels
        THEN Raised("ValueError")
        ELSE IF std.iterable /\ Len(std.v) # num_channels
        THEN Raised("ValueError")
        ELSE Returned(
          [image EXCEPT !.data = [i \in 1..image.shape[1] |-> [j \in 1..image.shape[2] |->
              [k \in 1..image.shape[3] |->
                 [op |-> "standardize", x |-> image.data[i][j][k],
                  mean |-> mean_of(chan(i, j, k)), std |-> std_of(chan(i, j, k))]]]]])

\* =================================================================== state
VARIABLES
    self,            \* the processor's fields, fixed by __init__
    input,           \* the images handed to preprocess
    images,          \* process_inner's local list
    pc,              \* position in preprocess / process_inner / pad_image
    raised,          \* the exception that ended the call, "" if none
    stages,          \* the transforms applied to the list so far, in order
    interpolations,  \* the interpolation argument of every cv2.resize so far
    pixel_values,    \* the returned batch
    pad_args,        \* arguments of a direct pad_image call
    pad_result       \* its result

vars == <<self, input, images, pc, raised, stages, interpolations, pixel_values,
          pad_args, pad_result>>

Sides == 1..MaxSide
ChannelCounts == {1, 3, 4}
\* RGB images of every shape; the channel count alone decides how any other
\* image fares, so grayscale and RGBA images come in one shape.
Images == {RawImage(h, w, 3) : h \in Sides, w \in Sides}
            \cup {RawImage(1, 1, c) : c \in ChannelCounts}
Batches == UNION {[1..n -> Images] : n \in 1..MaxBatch}
TargetSizes == {[width |-> w, height |-> h] : w \in Sides, h \in Sides}
\* image_mean and image_std: both left to the ImageNet defaults, or both scalars
Statistics == {[mean |-> PerChannel(IMAGENET_STANDARD_MEAN),
                std  |-> PerChannel(IMAGENET_STANDARD_STD)],
               [mean |-> Scalar(500), std |-> Scalar(500)]}

NoPadCall == [image |-> NoArray, size |-> [width |-> 0, height |-> 0],
              input_data_format |-> FIRST, pad_value |-> 0]

\* __init__: the fields after construction
Constructed(max_size, align, image_mean, image_std) ==
    [max_size |-> max_size,
     do_align_long_axis |-> align,
     resample |-> BILINEAR,
     rescale_factor |-> DefaultRescaleFactor,
     image_mean |-> image_mean,
     image_std |-> image_std]

Init ==
    /\ self \in {Constructed(t, a, st.mean, st.std) :
                   t \in TargetSizes, a \in BOOLEAN, st \in Statistics}
    /\ input \in Batches
    /\ images = <<>>
    /\ pc = "preprocess"
    /\ raised = ""
    /\ stages = <<>>
    /\ interpolations = <<>>
    /\ pixel_values = <<>>
    /\ pad_args = NoPadCall
    /\ pad_result = Returned(NoArray)

\* The exception a list comprehension ends with: that of its first raising element.
FirstRaised(results) ==
    LET bad == {i \in DOMAIN results : results[i].raised # ""}
    IN  IF bad = {} THEN ""
        ELSE results[CHOOSE i \in bad : \A j \in bad : i <= j].raised

Values(results) == [i \in DOMAIN results |-> results[i].value]

Raise(e) ==
    /\ pc' = "raised"
    /\ raised' = e
    /\ UNCHANGED <<self, input, images, stages, interpolations, pixel_values,
                   pad_args, pad_result>>

\* preprocess: make_list_of_images, np.array, call process_inner
preprocess ==
    /\ pc = "preprocess"
    /\ images' = input
    /\ pc' = "process_inner"
    /\ UNCHANGED <<self, input, raised, stages, interpolations, pixel_values,
                   pad_args, pad_result>>

\* assert images[0].shape[2] == 3
assert_channel_last ==
    /\ pc = "process_inner"
    /\ IF images[1].shape[3] = 3
       THEN /\ pc' = IF self.do_align_long_axis THEN "align" ELSE "resize"
            /\ UNCHANGED <<self, input, images, raised, stages, interpolations,
                           pixel_values, pad_args, pad_result>>
       ELSE Raise("AssertionError:channel_last")

\* images = [align_long_axis(image, size=self.max_size) for image in images]
align_images ==
    /\ pc = "align"
    /\ images' = [i \in DOMAIN images |-> align_long_axis(images[i], self.max_size)]
    /\ stages' = Append(stages, "align")
    /\ pc' = "verify"
    /\ UNCHANGED <<self, input, raised, interpolations, pixel_values, pad_args, pad_result>>

\* for img in images: assert img.shape[1] >= img.shape[0]
verify_wide ==
    /\ pc = "verify"
    /\ IF \A i \in DOMAIN images : images[i].shape[2] >= images[i].shape[1]
       THEN /\ pc' = "resize"
            /\ UNCHANGED <<self, input, images, raised, stages, interpolations,
                           pixel_values, pad_args, pad_result>>
       ELSE Raise("AssertionError:wide")

\* images = [numpy_resize(img, self.max_size, self.resample) for img in images]
resize_images ==
    /\ pc = "resize"
    /\ LET results == [i \in DOMAIN images |->
                         numpy_resize(images[i], self.max_size, self.resample)]
           n == IF FirstRaised(results) = "" THEN Len(images)
                ELSE CHOOSE i \in DOMAIN results :
                       /\ results[i].raised # ""
                       /\ \A j \in 1..(i - 1) : results[j].raised = ""
       IN  /\ interpolations' = interpolations \o [i \in 1..n |-> self.resample]
           /\ IF FirstRaised(results) = ""
              THEN /\ images' = Values(results)
                   /\ stages' = Append(stages, "resize")
                   /\ pc' = "resized"
                   /\ UNCHANGED raised
              ELSE /\ pc' = "raised"
                   /\ raised' = FirstRaised(results)
                   /\ UNCHANGED <<images, stages>>
    /\ UNCHANGED <<self, input, pixel_values, pad_args, pad_result>>

\* assert images[0].shape[0] == 3
assert_channel_first ==
    /\ pc = "resized"
    /\ IF images[1].shape[1] = 3
       THEN /\ pc' = "cast"
            /\ UNCHANGED <<self, input, images, raised, stages, interpolations,
                           pixel_values, pad_args, pad_result>>
       ELSE Raise("AssertionError:channel_first")

\* faulty variant: the cast is followed by the rescale, the padding is skipped
cast_images_skipping_pad ==
    /\ pc = "cast"
    /\ images' = [i \in DOMAIN images |-> astype(images[i], "float32")]
    /\ stages' = Append(stages, "float32")
    /\ pc' = "rescale"
    /\ UNCHANGED <<self, input, raised, interpolations, pixel_values, pad_args, pad_result>>

\* images = [img.astype(np.float32) for img in images]
cast_images ==
    /\ pc = "cast"
    /\ images' = [i \in DOMAIN images |-> astype(images[i], "float32")]
    /\ stages' = Append(stages, "float32")
    /\ pc' = "pad"
    /\ UNCHANGED <<self, input, raised, interpolations, pixel_values, pad_args, pad_result>>

PadAll(imgs, size) ==
    [i \in DOMAIN imgs |-> pad_image(imgs[i], size, FIRST, RECOGNITION_PAD_VALUE)]

\* images = [pad_image(image, size=max_size, ..., pad_value=...) for image in images]
pad_images ==
    /\ pc = "pad"
    /\ LET results == PadAll(images, self.max_size)
       IN  IF FirstRaised(results) = ""
           THEN /\ images' = Values(results)
                /\ stages' = Append(stages, "pad")
                /\ pc' = "rescale"
                /\ UNCHANGED raised
           ELSE /\ pc' = "raised"
                /\ raised' = FirstRaised(results)
                /\ UNCHANGED <<images, stages>>
    /\ UNCHANGED <<self, input, interpolations, pixel_values, pad_args, pad_result>>

\* faulty variant: every slot is computed from the first image
RescaleAll_first_only(imgs, rescale_factor) ==
    [idx \in DOMAIN imgs |-> rescale(imgs[1], rescale_factor)]

RescaleAll(imgs, rescale_factor) ==
    [idx \in DOMAIN imgs |-> rescale(imgs[idx], rescale_factor)]

\* for idx in range(len(images)): images[idx] = (... * self.rescale_factor)...
rescale_images ==
    /\ pc = "rescale"
    /\ images' = RescaleAll(images, self.rescale_factor)
    /\ stages' = Append(stages, "rescale")
    /\ pc' = "normalize"
    /\ UNCHANGED <<self, input, raised, interpolations, pixel_values, pad_args, pad_result>>

\* images = [normalize(img, mean=..., std=..., input_data_format=FIRST) for img in images]
normalize_images ==
    /\ pc = "normalize"
    /\ LET results == [i \in DOMAIN images |->
                         normalize(images[i], self.image_mean, self.image_std, FIRST)]
       IN  IF FirstRaised(results) = ""
           THEN /\ images' = Values(results)
                /\ stages' = Append(stages, "standardize")
                /\ pc' = "return"
                /\ UNCHANGED raised
           ELSE /\ pc' = "raised"
                /\ raised' = FirstRaised(results)
                /\ UNCHANGED <<images, stages>>
    /\ UNCHANGED <<self, input, interpolations, pixel_values, pad_args, pad_result>>

\* return images; BatchFeature(data={"pixel_values": images})
return_batch ==
    /\ pc = "return"
    /\ pixel_values' = images
    /\ pc' = "done"
    /\ UNCHANGED <<self, input, images, raised, stages, interpolations, pad_args, pad_result>>

Next ==
    \/ preprocess
    \/ assert_channel_last
    \/ align_images
    \/ verify_wide
    \/ resize_images
    \/ assert_channel_first
    \/ cast_images
    \/ pad_images
    \/ rescale_images
    \/ normalize_images
    \/ return_batch

Spec == Init /\ [][Next]_vars

\* ================================================ pad_image called on its own
PadImages(fmt) ==
    IF fmt = FIRST
    THEN {RawImage(3, h, w) : h \in Sides, w \in Sides}
    ELSE {RawImage(h, w, 3) : h \in Sides, w \in Sides}

PadInit ==
    /\ pad_args \in UNION {
          {[image |-> im, size |-> [width |-> w, height |-> h],
            input_data_format |-> fmt, pad_value |-> v] :
              im \in PadImages(fmt), w \in 1..MaxPadSide, h \in 1..MaxPadSide,
              v \in {0, RECOGNITION_PAD_VALUE}} : fmt \in {FIRST, LAST}}
    /\ pad_result = Returned(NoArray)
    /\ pc = "pad_image"
    /\ raised = ""
    /\ self = Constructed([width |-> 1, height |-> 1], FALSE,
                          PerChannel(IMAGENET_STANDARD_MEAN),
                          PerChannel(IMAGENET_STANDARD_STD))
    /\ input = <<>>
    /\ images = <<>>
    /\ stages = <<>>
    /\ interpolations = <<>>
    /\ pixel_values = <<>>

pad_image_call ==
    /\ pc = "pad_image"
    /\ pad_result' = pad_image(pad_args.image, pad_args.size,
                               pad_args.input_data_format, pad_args.pad_value)
    /\ raised' = pad_result'.raised
    /\ pc' = IF pad_result'.raised = "" THEN "pad_image_returned" ELSE "pad_image_raised"
    /\ UNCHANGED <<self, input, images, stages, interpolations, pixel_values, pad_args>>

PadNext == pad_image_call

PadSpec == PadInit /\ [][PadNext]_vars

\* ================================================================== claims
IsRGB(image) == image.shape[3] = 3
AllRGB == \A i \in DOMAIN input : IsRGB(input[i])
TargetLandscape == self.max_size.width > self.max_size.height
TargetPortrait == self.max_size.width < self.max_size.height

\* The code's rotation condition, as the claims state it
Contradicts(image, size) ==
    \/ (size.width < size.height /\ image.shape[2] > image.shape[1])
    \/ (size.width > size.height /\ image.shape[2] < image.shape[1])

\* C1: every call on 3-channel images ends normally, and every processed image
\* has shape (3, target height, target width).
C1_ShapeInvariant ==
    AllRGB =>
      /\ pc # "raised"
      /\ pc = "done" =>
           /\ Len(pixel_values) = Len(input)
           /\ \A i \in DOMAIN pixel_values :
                pixel_values[i].shape = <<3, self.max_size.height, self.max_size.width>>

\* C2: a batch holding a non-3-channel image at any position never yields a
\* returned batch.
C2_FatalOnBadInputPerImage ==
    (\E i \in DOMAIN input : ~IsRGB(input[i])) => pc # "done"

\* C3: the width >= height check after alignment never fails: not for a
\* portrait or square target (where it is not enforced), and not for a
\* landscape target (where align_long_axis has established it).
C3_WideCheckOnlyForLandscapeTarget ==
    AllRGB =>
      /\ ~TargetLandscape => raised # "AssertionError:wide"
      /\ TargetLandscape => raised # "AssertionError:wide"

C5_RotatesCounterClockwise ==
    pc = "verify" =>
      \A i \in DOMAIN input :
        LET in  == input[i]
            out == images[i]
            W   == in.shape[2]
        IN  Contradicts(in, self.max_size) =>
              /\ out.shape = <<in.shape[2], in.shape[1], in.shape[3]>>
              /\ \A r \in 1..out.shape[1], c \in 1..out.shape[2] :
                   out.data[r][c] = in.data[c][W + 1 - r]

\* C5 amended: a rotated image is the input turned 90 degrees clockwise: the
\* output is W x H and output (r, c) = input (H-1-c, r) counting from 0.
C5_RotatesClockwise ==
    pc = "verify" =>
      \A i \in DOMAIN input :
        LET in  == input[i]
            out == images[i]
            H   == in.shape[1]
        IN  Contradicts(in, self.max_size) =>
              /\ out.shape = <<in.shape[2], in.shape[1], in.shape[3]>>
              /\ \A r \in 1..out.shape[1], c \in 1..out.shape[2] :
                   out.data[r][c] = in.data[H + 1 - c][r]

C5_Witness ==
    /\ pc = "verify"
    /\ \E i \in DOMAIN input :
         /\ Contradicts(input[i], self.max_size)
         /\ input[i].shape[1] > input[i].shape[2]
         /\ images[i].shape[2] > images[i].shape[1]

\* Row r, column c of channel k of an image in the given layout
At(image, fmt, r, c, k) ==
    IF fmt = FIRST THEN image.data[k][r][c] ELSE image.data[r][c][k]

\* C6: pad_image returns a canvas of exactly the target size with the input at
\* offset ((H-h) div 2, (W-w) div 2) and the fill value everywhere else, so the
\* smaller half of an odd delta is on the top / left.
C6_PaddingSymmetry ==
    pc = "pad_image_returned" =>
      LET fmt == pad_args.input_data_format
          in  == pad_args.image
          out == pad_result.value
          h   == get_image_size(in, fmt)[1]
          w   == get_image_size(in, fmt)[2]
          H   == pad_args.size.height
          W   == pad_args.size.width
          pad_top    == (H - h) \div 2
          pad_bottom == (H - h) - pad_top
          pad_left   == (W - w) \div 2
          pad_right  == (W - w) - pad_left
      IN  /\ get_image_size(out, fmt) = <<H, W>>
          /\ Len(out.shape) = 3
          /\ \A k \in 1..3, r \in 1..H, c \in 1..W :
               IF /\ pad_top < r /\ r <= H - pad_bottom
                  /\ pad_left < c /\ c <= W - pad_right
               THEN At(out, fmt, r, c, k) = At(in, fmt, r - pad_top, c - pad_left, k)
               ELSE At(out, fmt, r, c, k) = pad_args.pad_value

C6_Witness ==
    /\ pc = "pad_image_returned"
    /\ (pad_args.size.height
          - get_image_size(pad_args.image, pad_args.input_data_format)[1]) % 2 = 1
    /\ (pad_args.size.width
          - get_image_size(pad_args.image, pad_args.input_data_format)[2]) = 2

\* C7: pad_image ends in the assertion failure, returning no array, exactly
\* when the target is smaller than the input in width or in height.
C7_NegativeDeltaFatal ==
    pc \in {"pad_image_returned", "pad_image_raised"} =>
      LET fmt == pad_args.input_data_format
          h   == get_image_size(pad_args.image, fmt)[1]
          w   == get_image_size(pad_args.image, fmt)[2]
          negative == pad_args.size.width < w \/ pad_args.size.height < h
      IN  /\ negative => /\ pad_result = Raised("AssertionError")
                         /\ pc = "pad_image_raised"
          /\ ~negative => /\ pad_result.raised = ""
                          /\ pc = "pad_image_returned"

C7_Witness ==
    /\ pc = "pad_image_raised"
    /\ pad_args.size.width
         >= get_image_size(pad_args.image, pad_args.input_data_format)[2]
    /\ pad_args.size.height
         < get_image_size(pad_args.image, pad_args.input_data_format)[1]

\* process_inner on a list holding the one image
ProcessedAlone(image) ==
    LET aligned == IF self.do_align_long_axis
                   THEN align_long_axis(image, self.max_size) ELSE image
        resized == numpy_resize(aligned, self.max_size, self.resample).value
        padded  == pad_image(astype(resized, "float32"), self.max_size, FIRST,
                             RECOGNITION_PAD_VALUE).value
    IN  normalize(rescale(padded, self.rescale_factor),
                  self.image_mean, self.image_std, FIRST).value

\* C8: the returned batch has one element per input image, and its i-th element
\* is what the i-th image yields when processed alone.
C8_BatchOrderPreserved ==
    (pc = "done" /\ AllRGB) =>
      /\ Len(pixel_values) = Len(input)
      /\ \A i \in DOMAIN input : pixel_values[i] = ProcessedAlone(input[i])

C8_Witness ==
    /\ pc = "done"
    /\ AllRGB
    /\ Len(input) >= 2
    /\ input[1] # input[2]
    /\ pixel_values[1] # pixel_values[2]

\* C9: every cv2.resize of the pipeline is given the Lanczos selector.
C9_LanczosKernel ==
    \A n \in DOMAIN interpolations : interpolations[n] = INTER_LANCZOS4

StageOrder ==
    (IF self.do_align_long_axis THEN <<"align">> ELSE <<>>)
      \o <<"resize", "float32", "pad", "rescale", "standardize">>

\* C10: the stages run once each in the order align (when enabled), resize,
\* float cast, pad, rescale, standardize; every sample of a returned image is a
\* sample of the padded canvas multiplied by rescale_factor and then
\* standardized with its channel's mean and std.
C10_FixedStageOrder ==
    /\ Len(stages) <= Len(StageOrder)
    /\ stages = SubSeq(StageOrder, 1, Len(stages))
    /\ pc = "done" =>
         /\ stages = StageOrder
         /\ \A i \in DOMAIN pixel_values :
              /\ pixel_values[i].dtype = "float32"
              /\ \A k \in 1..pixel_values[i].shape[1],
                    r \in 1..pixel_values[i].shape[2],
                    c \in 1..pixel_values[i].shape[3] :
                   LET s == pixel_values[i].data[k][r][c]
                   IN  /\ s.op = "standardize"
                       /\ s.mean = (IF self.image_mean.iterable
                                    THEN self.image_mean.v[k] ELSE self.image_mean.v[1])
                       /\ s.std = (IF self.image_std.iterable
                                   THEN self.image_std.v[k] ELSE self.image_std.v[1])
                       /\ s.x.op = "mul"
                       /\ s.x.by = self.rescale_factor
                       /\ s.x.x.op = "cv2.resize"

C10_Witness ==
    /\ pc = "done"
    /\ self.do_align_long_axis
    /\ Len(stages) = 6
    /\ Len(pixel_values) >= 2

====
